---- MODULE Spec2Model ----
(***************************************************************************)
(* A model of ugrd's InitramfsGenerator (src/ugrd/initramfs_generator.py): *)
(* the build pipeline (build_structure), the init script generator         *)
(* (generate_init, _run_hook) and the filesystem helpers (_mkdir, _chown,  *)
(* _write, _copy, deploy_dependencies, generate_structure).                *)
(*                                                                         *)
(* A pathlib.Path is a record [abs, parts]; the filesystem is a function   *)
(* from resolved absolute paths (sequences of components) to nodes.        *)
(* A Python str is a TLA+ string, a list a sequence.  A raised exception   *)
(* is the err field of an operator's result, and the partial filesystem    *)
(* the call left behind is its fs field.                                   *)
(***************************************************************************)
EXTENDS Naturals, Sequences, FiniteSets, TLC

VARIABLES cfg, imports, fs, pc, idx, calls, init, err

vars == <<cfg, imports, fs, pc, idx, calls, init, err>>

(***************************************************************************)
(* Bounds of the model.                                                    *)
(***************************************************************************)
\* longest hook list registered for one stage
MaxHooks == 2
\* hooks registered over all stages of one configuration
MaxTotalHooks == 2
\* longest dependency list
MaxDeps == 2
\* direct FilesystemOps calls in one behaviour of SpecFs
MaxFsOps == 2

(***************************************************************************)
(* Python values.                                                          *)
(***************************************************************************)
\* an optional value: None, or Some(v)
None == <<>>
Some(v) == <<v>>

\* __version__
version == "0.6.2"

(***************************************************************************)
(* pathlib                                                                 *)
(***************************************************************************)
P(abs, parts) == [abs |-> abs, parts |-> parts]

\* Path.parent: the parent of the root, and of the empty relative path, is itself
Parent(p) ==
    IF p.parts = <<>> THEN p
    ELSE [p EXCEPT !.parts = SubSeq(p.parts, 1, Len(p.parts) - 1)]

\* Path.name
Name(p) == IF p.parts = <<>> THEN "" ELSE p.parts[Len(p.parts)]

\* a / b: an absolute right operand replaces the left one
Join(a, b) == IF b.abs THEN b ELSE P(a.abs, a.parts \o b.parts)

\* p.relative_to(p.anchor), Path(p).relative_to('/')
RelativeToAnchor(p) == P(FALSE, p.parts)

\* the working directory of the process, against which the OS resolves a
\* relative path
Cwd == <<"home">>

\* the absolute path the OS resolves p to: the key of the filesystem
Resolve(p) == IF p.abs THEN p.parts ELSE Cwd \o p.parts

(***************************************************************************)
(* The filesystem the os, os.path and shutil calls act on.                 *)
(***************************************************************************)
Ok(f) == [fs |-> f, err |-> "none"]
Raise(f, e) == [fs |-> f, err |-> e]

Exists(f, p) == Resolve(p) \in DOMAIN f

\* os.path.isdir, Path.is_dir
isdir(f, p) == Exists(f, p) /\ f[Resolve(p)].kind = "dir"

\* Path.is_file
is_file(f, p) == Exists(f, p) /\ f[Resolve(p)].kind = "file"

\* a node created by the build process, which runs as uid 0 (it chowns):
\* directories get mode 0o755 (493) under the usual umask
NewDir == [kind |-> "dir", owner |-> 0, group |-> 0, mode |-> 493, content |-> ""]

\* the filesystem f with node n at key k
Put(f, k, n) == [q \in DOMAIN f \cup {k} |-> IF q = k THEN n ELSE f[q]]

\* the paths above key k, the root first
Ancestors(k) == {SubSeq(k, 1, i) : i \in 0..Len(k) - 1}

\* what the OS reports when it walks to the directory that holds p: ENOTDIR
\* when a component is a regular file, ENOENT when one is missing
walk(f, p) ==
    IF \E a \in Ancestors(Resolve(p)) : a \in DOMAIN f /\ f[a].kind = "file"
    THEN "NotADirectoryError"
    ELSE IF \E a \in Ancestors(Resolve(p)) : a \notin DOMAIN f
         THEN "FileNotFoundError"
         ELSE "none"

\* os.stat(path), for the exception only
stat(f, p) ==
    IF walk(f, p) # "none" THEN walk(f, p)
    ELSE IF ~Exists(f, p) THEN "FileNotFoundError"
         ELSE "none"

\* os.mkdir(path)
mkdir(f, p) ==
    IF walk(f, p) # "none" THEN Raise(f, walk(f, p))
    ELSE IF Exists(f, p) THEN Raise(f, "FileExistsError")
         ELSE Ok(Put(f, Resolve(p), NewDir))

\* os.chown(path, uid, gid)
chown(f, p, uid, gid) ==
    IF stat(f, p) # "none" THEN Raise(f, stat(f, p))
    ELSE Ok([f EXCEPT ![Resolve(p)].owner = uid, ![Resolve(p)].group = gid])

\* os.chmod(path, mode)
chmod(f, p, mode) ==
    IF stat(f, p) # "none" THEN Raise(f, stat(f, p))
    ELSE Ok([f EXCEPT ![Resolve(p)].mode = mode])

IsPrefix(s, t) == Len(s) <= Len(t) /\ SubSeq(t, 1, Len(s)) = s

\* shutil.rmtree(path): the directory and everything under it
rmtree(f, p) ==
    [q \in {k \in DOMAIN f : ~IsPrefix(Resolve(p), k)} |-> f[q]]

\* open(path, 'w') followed by write(text): a new file belongs to the
\* process (mode 0o644 = 420 under the usual umask), an existing one is
\* truncated and keeps its owner and mode
open_w(f, p, text) ==
    IF walk(f, p) # "none" THEN Raise(f, walk(f, p))
    ELSE IF isdir(f, p) THEN Raise(f, "IsADirectoryError")
         ELSE IF Exists(f, p)
              THEN Ok([f EXCEPT ![Resolve(p)].content = text])
              ELSE Ok(Put(f, Resolve(p),
                          [kind |-> "file", owner |-> 0, group |-> 0,
                           mode |-> 420, content |-> text]))

\* where shutil.copy2(src, dst) writes: into dst under src's name when dst
\* is a directory, else dst itself
copy2_target(f, src, dst) ==
    IF isdir(f, dst) THEN P(TRUE, Resolve(dst) \o <<Name(src)>>) ELSE dst

\* shutil.copy2(src, dst): content and mode of src; the owner is not copied.
\* copyfile tests for the same file first, then opens src, then the target
copy2(f, src, dst) ==
    LET t == copy2_target(f, src, dst)
    IN  IF Exists(f, src) /\ Resolve(t) = Resolve(src) THEN Raise(f, "SameFileError")
        ELSE IF stat(f, src) # "none" THEN Raise(f, stat(f, src))
        ELSE IF isdir(f, src) THEN Raise(f, "IsADirectoryError")
        ELSE LET w == open_w(f, t, f[Resolve(src)].content)
             IN  IF w.err # "none" THEN w
                 ELSE chmod(w.fs, t, f[Resolve(src)].mode)

(***************************************************************************)
(* FilesystemOps of the generator.  cfg is the configuration (config_dict, *)
(* and the attributes load_config copies from it).                         *)
(***************************************************************************)
Owned(f, p) ==
    /\ Exists(f, p)
    /\ f[Resolve(p)].owner = cfg.uid
    /\ f[Resolve(p)].group = cfg.uid

\* _chown(path): Path.owner() stats the path, then looks its uid up in the
\* password database and raises KeyError when the uid has no entry there;
\* nothing is changed when owner and group already match.  (The code
\* compares the owner's name with the uid; when that test never succeeds
\* os.chown is called with the ids the path already has, which leaves the
\* same filesystem.)
_chown(f, p) ==
    IF stat(f, p) # "none" THEN Raise(f, stat(f, p))
    ELSE IF f[Resolve(p)].owner \notin cfg.passwd THEN Raise(f, "KeyError")
    ELSE IF f[Resolve(p)].owner = cfg.uid /\ f[Resolve(p)].group = cfg.uid
         THEN Ok(f)
         ELSE chown(f, p, cfg.uid, cfg.uid)

\* the directory _mkdir works on: the parent of a path that is a directory
path_dir(f, p) == IF isdir(f, p) THEN Parent(p) ELSE p

RECURSIVE _mkdir_bottom_up(_, _)
\* a faulty _mkdir: the directory is made before its parent is looked at
_mkdir_bottom_up(f, p) ==
    LET pd == path_dir(f, p)
        r1 == IF ~isdir(f, pd) THEN mkdir(f, p) ELSE Ok(f)
    IN  IF r1.err # "none" THEN r1
        ELSE LET r2 == IF ~isdir(r1.fs, Parent(pd))
                       THEN _mkdir_bottom_up(r1.fs, Parent(pd)) ELSE r1
             IN  IF r2.err # "none" THEN r2 ELSE _chown(r2.fs, pd)

RECURSIVE _mkdir(_, _)
\* _mkdir(path)
_mkdir(f, p) ==
    LET pd == path_dir(f, p)
        r1 == IF ~isdir(f, Parent(pd)) THEN _mkdir(f, Parent(pd)) ELSE Ok(f)
    IN  IF r1.err # "none" THEN r1
        ELSE LET r2 == IF ~isdir(r1.fs, pd) THEN mkdir(r1.fs, p) ELSE r1
             IN  IF r2.err # "none" THEN r2 ELSE _chown(r2.fs, pd)

RECURSIVE JoinNL(_)
\* "\n".join(contents)
JoinNL(contents) ==
    IF contents = <<>> THEN ""
    ELSE IF Len(contents) = 1 THEN contents[1]
         ELSE contents[1] \o "\n" \o JoinNL(Tail(contents))

\* the path _write and _copy act on
build_path(name, in_build_dir) ==
    IF in_build_dir
    THEN IF name.abs THEN Join(cfg.build_dir, RelativeToAnchor(name))
                     ELSE Join(cfg.build_dir, name)
    ELSE name

\* _write(file_name, contents, chmod_mask, in_build_dir)
_write(f, file_name, contents, chmod_mask, in_build_dir) ==
    LET file_path == build_path(file_name, in_build_dir)
        w == open_w(f, file_path, JoinNL(contents))
    IN  IF w.err # "none" THEN w
        ELSE LET m == chmod(w.fs, file_path, chmod_mask)
             IN  IF m.err # "none" THEN m ELSE _chown(m.fs, file_path)

\* _copy(source, dest, in_build_dir); dest is None (the default) or Some path
_copy(f, source, dest, in_build_dir) ==
    LET d == IF dest = None THEN source ELSE dest[1]
        dest_path == build_path(d, in_build_dir)
        r1 == IF ~isdir(f, Parent(dest_path)) THEN _mkdir(f, Parent(dest_path))
                                              ELSE Ok(f)
    IN  IF r1.err # "none" THEN r1
        ELSE LET c == copy2(r1.fs, source, dest_path)
             IN  IF c.err # "none" THEN c ELSE _chown(c.fs, dest_path)

\* a faulty loop: only the first dependency is copied
deploy_from_first(f, deps) ==
    IF deps = <<>> THEN Ok(f) ELSE _copy(f, Head(deps), None, TRUE)

RECURSIVE deploy_from(_, _)
\* the loop of deploy_dependencies over the dependencies still to copy
deploy_from(f, deps) ==
    IF deps = <<>> THEN Ok(f)
    ELSE LET r == _copy(f, Head(deps), None, TRUE)
         IN  IF r.err # "none" THEN r ELSE deploy_from(r.fs, Tail(deps))

\* deploy_dependencies()
deploy_dependencies(f) == deploy_from(f, cfg.dependencies)

RECURSIVE mkdir_all(_, _)
\* the loop of generate_structure over the paths still to create
mkdir_all(f, subdirs) ==
    IF subdirs = <<>> THEN Ok(f)
    ELSE LET target_dir == Join(cfg.build_dir, RelativeToAnchor(Head(subdirs)))
             r == _mkdir(f, target_dir)
         IN  IF r.err # "none" THEN r ELSE mkdir_all(r.fs, Tail(subdirs))

\* generate_structure(), iterating set(paths) in the given order
generate_structure(f, order) ==
    LET r == IF ~isdir(f, cfg.build_dir) THEN _mkdir(f, cfg.build_dir) ELSE Ok(f)
    IN  IF r.err # "none" THEN r ELSE mkdir_all(r.fs, order)

\* the orders in which a set can be iterated
Orders(S) ==
    {o \in [1..Cardinality(S) -> S] : \A i, j \in DOMAIN o : i # j => o[i] # o[j]}

(***************************************************************************)
(* The hook registry config_dict['imports']: a dict from stage name to a   *)
(* list of callables.  A callable is modelled by what it does when called. *)
(***************************************************************************)
\* dict.get(key): None for a key the dict does not hold
Get(d, k) == IF k \in DOMAIN d THEN Some(d[k]) ELSE None

\* the truth value of what Get returns: None and the empty list are falsy
Truthy(v) == v # None /\ v[1] # <<>>

\* a build or pack hook: returns, writes a file through the generator it is
\* handed, or raises
BuildHooks == {"ok", "write", "raise"}

\* task(self) for a custom build hook
call_build_hook(f, h) ==
    CASE h = "raise" -> Raise(f, "HookError")
      [] h = "write" -> _write(f, P(FALSE, <<"hook.out">>), <<"x">>, 420, TRUE)
      [] OTHER -> Ok(f)

(***************************************************************************)
(* build_structure(): one step per task it calls.                          *)
(***************************************************************************)
\* a faulty clean: the build dir is never removed
clean_build_dir_kept(f) == f

\* a faulty test of the flag: the build dir is removed when clean is not set
clean_build_dir_inverted(f) ==
    IF ~cfg.clean
    THEN IF isdir(f, cfg.build_dir) THEN rmtree(f, cfg.build_dir) ELSE f
    ELSE f

\* lines 55-65: the clean of the build dir
clean_build_dir(f) ==
    IF cfg.clean
    THEN IF isdir(f, cfg.build_dir) THEN rmtree(f, cfg.build_dir) ELSE f
    ELSE f

\* whether build_structure calls rmtree (line 61)
cleans(f) == cfg.clean /\ isdir(f, cfg.build_dir)

BuildClean ==
    /\ pc = "build_start"
    /\ fs' = clean_build_dir(fs)
    /\ calls' = IF cleans(fs) THEN Append(calls, <<"rmtree", 0>>) ELSE calls
    /\ pc' = "build_pre"
    /\ UNCHANGED <<cfg, imports, idx, init, err>>

\* a faulty propagation: an exception is swallowed and the pipeline goes on
after_task_continue(e, next_pc) == next_pc

\* where build_structure goes on after a task that ended with error e
after_task(e, next_pc) == IF e = "none" THEN next_pc ELSE "failed"

\* lines 70-71: self.build_pre = [generate_structure]
BuildPre ==
    /\ pc = "build_pre"
    /\ \E order \in Orders(cfg.paths) :
         LET r == generate_structure(fs, order)
         IN  /\ fs' = r.fs
             /\ err' = r.err
             /\ pc' = after_task(r.err, "build_pre_custom")
    /\ calls' = Append(calls, <<"generate_structure", 0>>)
    /\ idx' = 1
    /\ UNCHANGED <<cfg, imports, init>>

\* a faulty loop: the hooks of the stage are called last to first
CustomHook_reversed(at, stage) ==
    /\ pc = at
    /\ Truthy(Get(imports, stage))
    /\ idx <= Len(imports[stage])
    /\ LET i == Len(imports[stage]) + 1 - idx
           r == call_build_hook(fs, imports[stage][i])
       IN  /\ fs' = r.fs
           /\ err' = r.err
           /\ pc' = after_task(r.err, at)
           /\ calls' = Append(calls, <<stage, i>>)
    /\ idx' = idx + 1
    /\ UNCHANGED <<cfg, imports, init>>

\* one iteration of a loop over the custom hooks of a stage (lines 77-78,
\* 90-91): the hook at idx is called with the generator
CustomHook(at, stage) ==
    /\ pc = at
    /\ Truthy(Get(imports, stage))
    /\ idx <= Len(imports[stage])
    /\ LET r == call_build_hook(fs, imports[stage][idx])
       IN  /\ fs' = r.fs
           /\ err' = r.err
           /\ pc' = after_task(r.err, at)
    /\ calls' = Append(calls, <<stage, idx>>)
    /\ idx' = idx + 1
    /\ UNCHANGED <<cfg, imports, init>>

\* a faulty end: with no hook registered a file is left in the build dir
CustomHooksEnd_default(at, stage, next_pc) ==
    /\ pc = at
    /\ \/ ~Truthy(Get(imports, stage))
       \/ Truthy(Get(imports, stage)) /\ idx > Len(imports[stage])
    /\ pc' = next_pc
    /\ idx' = 1
    /\ fs' = IF Truthy(Get(imports, stage)) THEN fs
             ELSE open_w(fs, Join(cfg.build_dir, P(FALSE, <<stage>>)), "").fs
    /\ UNCHANGED <<cfg, imports, calls, init, err>>

\* the end of the loop, or the walrus test that skips it (lines 74, 87)
CustomHooksEnd(at, stage, next_pc) ==
    /\ pc = at
    /\ \/ ~Truthy(Get(imports, stage))
       \/ Truthy(Get(imports, stage)) /\ idx > Len(imports[stage])
    /\ pc' = next_pc
    /\ idx' = 1
    /\ UNCHANGED <<cfg, imports, fs, calls, init, err>>

BuildPreCustom == CustomHook("build_pre_custom", "build_pre")

BuildPreCustomEnd == CustomHooksEnd("build_pre_custom", "build_pre", "build_tasks")

\* lines 83-84: self.build_tasks = [deploy_dependencies]
BuildTasks ==
    /\ pc = "build_tasks"
    /\ LET r == deploy_dependencies(fs)
       IN  /\ fs' = r.fs
           /\ err' = r.err
           /\ pc' = after_task(r.err, "build_tasks_custom")
    /\ calls' = Append(calls, <<"deploy_dependencies", 0>>)
    /\ idx' = 1
    /\ UNCHANGED <<cfg, imports, init>>

BuildTasksCustom == CustomHook("build_tasks_custom", "build_tasks")

BuildTasksCustomEnd == CustomHooksEnd("build_tasks_custom", "build_tasks", "build_done")

(***************************************************************************)
(* The configurations and the filesystems a build starts from.             *)
(***************************************************************************)
RECURSIVE SeqsUpTo(_, _)
\* the sequences over S of length at most n
SeqsUpTo(S, n) ==
    IF n = 0 THEN {<<>>}
    ELSE LET shorter == SeqsUpTo(S, n - 1)
         IN  shorter \cup {Append(q, x) : q \in shorter, x \in S}

\* the sequences over S of length exactly n
SeqsOfLen(S, n) == {q \in SeqsUpTo(S, n) : Len(q) = n}

Min(a, b) == IF a <= b THEN a ELSE b

RECURSIVE Registries(_, _, _)
\* the registries over the given stages and hooks that hold at most budget
\* hooks: a stage is absent, or holds a list (which may be empty)
Registries(stages, hooks, budget) ==
    IF stages = {} THEN {[k \in {} |-> <<>>]}
    ELSE LET k == CHOOSE x \in stages : TRUE
             rest == stages \ {k}
         IN  Registries(rest, hooks, budget)
             \cup UNION {{(k :> q) @@ d : q \in SeqsOfLen(hooks, n),
                                          d \in Registries(rest, hooks, budget - n)} :
                         n \in 0..Min(MaxHooks, budget)}

build_dir == P(TRUE, <<"b">>)

lib == P(TRUE, <<"lib">>)
lib_modules == P(TRUE, <<"lib", "modules">>)
bin_busybox == P(TRUE, <<"bin", "busybox">>)
bin_sh == P(TRUE, <<"bin", "sh">>)
rel_busybox == P(FALSE, <<"bin", "busybox">>)

File(owner, content) ==
    [kind |-> "file", owner |-> owner, group |-> owner, mode |-> 493,
     content |-> content]
Dir(owner) == [NewDir EXCEPT !.owner = owner, !.group = owner]

\* the host outside the build dir: /bin/busybox, /bin/sh, and bin/busybox
\* under the working directory
HostFs ==
    (<<>> :> Dir(0)) @@ (<<"bin">> :> Dir(0)) @@ (<<"home">> :> Dir(0))
    @@ (<<"home", "bin">> :> Dir(0))
    @@ (<<"bin", "busybox">> :> File(0, "busybox"))
    @@ (<<"bin", "sh">> :> File(0, "sh"))
    @@ (<<"home", "bin", "busybox">> :> File(0, "busybox.local"))

\* what an earlier run, or anyone else, may have left at the build dir
BuildTrees ==
    { <<>> :> Dir(0),
      (<<"b">> :> Dir(7)) @@ (<<"b", "lib">> :> Dir(7))
          @@ (<<"b", "init">> :> File(7, "old init")),
      (<<"b">> :> Dir(1000)) @@ (<<"b", "lib">> :> File(1000, "stale")),
      (<<"b">> :> Dir(1000)) @@ (<<"b", "bin">> :> Dir(1000))
          @@ (<<"b", "bin", "sh">> :> Dir(1000)),
      <<"b">> :> File(7, "not a directory") }

\* the password databases a host may have: an entry for every uid that owns
\* something, none for the configured uid, none but root's
Hosts == {{0, 7, 1000}, {0, 7}, {0}}

\* the hosts that know the owner of what an earlier run left
BuildHosts == {h \in Hosts : 7 \in h}

\* the config dict, and with it the password database of the host (passwd)
Config(clean, paths, deps, passwd) ==
    [build_dir |-> build_dir, clean |-> clean, paths |-> paths,
     dependencies |-> deps, shebang |-> "#!/bin/bash", uid |-> 1000,
     passwd |-> passwd]

InitBuild ==
    /\ cfg \in {Config(c, ps, ds, h) :
                  c \in BOOLEAN, ps \in SUBSET {lib, lib_modules},
                  ds \in SeqsUpTo({bin_busybox, bin_sh, rel_busybox}, MaxDeps),
                  h \in BuildHosts}
    /\ imports \in Registries({"build_pre", "build_tasks"}, BuildHooks, MaxTotalHooks)
    /\ fs \in {t @@ HostFs : t \in BuildTrees}
    /\ pc = "build_start"
    /\ idx = 1
    /\ calls = <<>>
    /\ init = <<>>
    /\ err = "none"

NextBuild ==
    \/ BuildClean
    \/ BuildPre
    \/ BuildPreCustom
    \/ BuildPreCustomEnd
    \/ BuildTasks
    \/ BuildTasksCustom
    \/ BuildTasksCustomEnd

SpecBuild == InitBuild /\ [][NextBuild]_vars

(***************************************************************************)
(* _run_hook, generate_init_main and generate_init.                        *)
(***************************************************************************)
\* an init hook: returns None, a str or a list of str, or raises
InitHooks == {"none", "str", "list", "raise"}

\* func(self) for an init hook that returns
hook_output(h) ==
    CASE h = "str" -> [type |-> "str", val |-> "echo A"]
      [] h = "list" -> [type |-> "list", val |-> <<"echo B1", "echo B2">>]
      [] OTHER -> [type |-> "NoneType"]

\* the truth value of a hook's output
truth(v) ==
    CASE v.type = "str" -> v.val # ""
      [] v.type = "list" -> v.val # <<>>
      [] OTHER -> FALSE

\* a faulty collection: only the first line of a list is kept
add_output_first(out, v) ==
    IF truth(v)
    THEN IF v.type = "str" THEN out \o <<v.val>> ELSE out \o <<v.val[1]>>
    ELSE out

\* lines 112-120: what one hook's output adds to out
add_output(out, v) ==
    IF truth(v)
    THEN IF v.type = "str" THEN out \o <<v.val>> ELSE out \o v.val
    ELSE out

\* the result of _run_hook and generate_init_main: the list returned (what
\* was collected when an exception ended the call), the exception, and the
\* hooks called, in order
Hooked(out, e, called) == [out |-> out, err |-> e, called |-> called]

RECURSIVE run_funcs(_, _, _, _)
\* the loop of _run_hook from the i-th hook of the level on
run_funcs(level, funcs, i, out) ==
    IF i > Len(funcs) THEN Hooked(out, "none", <<>>)
    ELSE IF funcs[i] = "raise" THEN Hooked(out, "HookError", <<<<level, i>>>>)
    ELSE LET r == run_funcs(level, funcs, i + 1, add_output(out, hook_output(funcs[i])))
         IN  Hooked(r.out, r.err, <<<<level, i>>>> \o r.called)

\* _run_hook(level): iterating None is a TypeError
_run_hook(level) ==
    LET out == <<"\n\n# Begin " \o level>>
        funcs == Get(imports, level)
    IN  IF funcs = None THEN Hooked(out, "TypeError", <<>>)
        ELSE run_funcs(level, funcs[1], 1, out)

\* a faulty order of the init types
init_types_swapped == <<"init_late", "init_main", "init_mount">>

init_types == <<"init_main", "init_late", "init_mount">>

RECURSIVE init_main_from(_, _)
\* the loop of generate_init_main over the init types still to run
init_main_from(types, out) ==
    IF types = <<>> THEN Hooked(out, "none", <<>>)
    ELSE LET r == _run_hook(Head(types))
         IN  IF r.err # "none" THEN Hooked(out, r.err, r.called)
             ELSE LET rest == init_main_from(Tail(types), out \o r.out)
                  IN  Hooked(rest.out, rest.err, r.called \o rest.called)

\* generate_init_main()
generate_init_main == init_main_from(init_types, <<>>)

\* a faulty choice: the main init runs after the custom init as well
init_body_both ==
    IF Truthy(Get(imports, "custom_init"))
    THEN LET c == _run_hook("custom_init")
             m == generate_init_main
         IN  IF c.err # "none" THEN c
             ELSE Hooked(c.out \o m.out, m.err, c.called \o m.called)
    ELSE generate_init_main

\* a faulty test: the custom init is run once to see whether it gives
\* anything, and once more for its output
init_body_probed ==
    IF Truthy(Get(imports, "custom_init"))
    THEN LET c == _run_hook("custom_init")
         IN  Hooked(c.out, c.err, c.called \o c.called)
    ELSE generate_init_main

\* line 134: the custom init, or else the main init
init_body ==
    IF Truthy(Get(imports, "custom_init")) THEN _run_hook("custom_init")
    ELSE generate_init_main

\* a faulty stage: what was collected is written out when a hook raises
InitStage_salvage(at, r, next_pc) ==
    /\ pc = at
    /\ init' = IF r.err = "none" THEN init \o r.out ELSE init
    /\ fs' = IF r.err = "none" THEN fs
             ELSE _write(fs, P(FALSE, <<"init">>), init \o r.out, 493, TRUE).fs
    /\ err' = r.err
    /\ pc' = after_task(r.err, next_pc)
    /\ calls' = calls \o r.called
    /\ UNCHANGED <<cfg, imports, idx>>

\* one "init += <stage>" of generate_init: an exception leaves init as it was
InitStage(at, r, next_pc) ==
    /\ pc = at
    /\ init' = IF r.err = "none" THEN init \o r.out ELSE init
    /\ err' = r.err
    /\ pc' = after_task(r.err, next_pc)
    /\ calls' = calls \o r.called
    /\ UNCHANGED <<cfg, imports, fs, idx>>

\* lines 129-131
GenInitStart ==
    /\ pc = "init_start"
    /\ init' = <<cfg.shebang, "# Generated by initramfs_generator.py v" \o version>>
    /\ pc' = "init_pre"
    /\ UNCHANGED <<cfg, imports, fs, idx, calls, err>>

\* line 133
GenInitPre == InitStage("init_pre", _run_hook("init_pre"), "init_body")

\* line 134
GenInitBody == InitStage("init_body", init_body, "init_final")

\* line 135
GenInitFinal == InitStage("init_final", _run_hook("init_final"), "init_write")

\* lines 137-139
GenInitWrite ==
    /\ pc = "init_write"
    /\ init' = init \o <<"\n\n# END INIT">>
    /\ LET r == _write(fs, P(FALSE, <<"init">>), init', 493, TRUE)
       IN  /\ fs' = r.fs
           /\ err' = r.err
           /\ pc' = after_task(r.err, "init_done")
    /\ UNCHANGED <<cfg, imports, idx, calls>>

InitStages ==
    {"init_pre", "init_main", "init_late", "init_mount", "custom_init", "init_final"}

\* the build dirs generate_init may find: none, a fresh one, one holding an
\* init of an earlier run
InitTrees ==
    { <<>> :> Dir(0),
      <<"b">> :> Dir(1000),
      (<<"b">> :> Dir(1000)) @@ (<<"b", "init">> :> File(7, "old init")) }

InitGen ==
    /\ cfg \in {Config(FALSE, {}, <<>>, h) : h \in Hosts}
    /\ imports \in Registries(InitStages, InitHooks, MaxTotalHooks)
    /\ fs \in {t @@ HostFs : t \in InitTrees}
    /\ pc = "init_start"
    /\ idx = 1
    /\ calls = <<>>
    /\ init = <<>>
    /\ err = "none"

NextGen ==
    \/ GenInitStart
    \/ GenInitPre
    \/ GenInitBody
    \/ GenInitFinal
    \/ GenInitWrite

SpecInit == InitGen /\ [][NextGen]_vars

(***************************************************************************)
(* Direct calls of the filesystem helpers, as a hook or a caller of the    *)
(* generator makes them.  calls logs each call with the path it acts on    *)
(* and whether that path was a directory when the call was made.           *)
(***************************************************************************)
FsCall(op, touched, r) ==
    /\ pc = "fs_ops"
    /\ Len(calls) < MaxFsOps
    /\ fs' = r.fs
    /\ err' = r.err
    /\ calls' = Append(calls, <<op, Resolve(touched), isdir(fs, touched)>>)
    /\ UNCHANGED <<cfg, imports, pc, idx, init>>

b_lib == Join(build_dir, RelativeToAnchor(lib))
b_lib_modules == Join(build_dir, RelativeToAnchor(lib_modules))
b_init == Join(build_dir, P(FALSE, <<"init">>))

CallMkdir ==
    \E p \in {build_dir, b_lib, b_lib_modules, b_init} :
        FsCall("_mkdir", p, _mkdir(fs, p))

CallChown ==
    \E p \in {build_dir, b_lib, b_init, bin_sh} :
        FsCall("_chown", p, _chown(fs, p))

CallWrite ==
    \E name \in {P(FALSE, <<"init">>), P(TRUE, <<"lib", "conf">>)},
       mask \in {420, 493}, in_build_dir \in BOOLEAN :
        FsCall("_write", build_path(name, in_build_dir),
               _write(fs, name, <<"a", "b">>, mask, in_build_dir))

CallCopy ==
    \E source \in {bin_busybox, rel_busybox},
       dest \in {None, Some(P(TRUE, <<"lib", "bb">>)), Some(P(FALSE, <<"init">>))},
       in_build_dir \in BOOLEAN :
        FsCall("_copy",
               build_path(IF dest = None THEN source ELSE dest[1], in_build_dir),
               _copy(fs, source, dest, in_build_dir))

InitFs ==
    /\ cfg \in {Config(FALSE, {}, <<>>, h) : h \in Hosts}
    /\ imports = [k \in {} |-> <<>>]
    /\ fs \in {t @@ HostFs : t \in BuildTrees}
    /\ pc = "fs_ops"
    /\ idx = 1
    /\ calls = <<>>
    /\ init = <<>>
    /\ err = "none"

NextFs ==
    \/ CallMkdir
    \/ CallChown
    \/ CallWrite
    \/ CallCopy

SpecFs == InitFs /\ [][NextFs]_vars

(***************************************************************************)
(* Properties of build_structure, checked under SpecBuild.                 *)
(***************************************************************************)
\* the calls of the custom hooks of a stage, in registration order
HookCalls(stage) ==
    IF Truthy(Get(imports, stage))
    THEN [i \in 1..Len(imports[stage]) |-> <<stage, i>>]
    ELSE <<>>

\* the tasks a complete build calls, in the order the claim gives
BuildOrder ==
    <<<<"generate_structure", 0>>>> \o HookCalls("build_pre")
    \o <<<<"deploy_dependencies", 0>>>> \o HookCalls("build_tasks")

IsTask(c) == c[1] # "rmtree"

\* the tasks called so far
TaskCalls == SelectSeq(calls, IsTask)

\* C1: the tasks build() has called are always an initial part of
\* generate_structure, the build_pre hooks in registration order,
\* deploy_dependencies, the build_tasks hooks in registration order; a
\* build that is done has called them all.
C1_BuildOrder ==
    /\ IsPrefix(TaskCalls, BuildOrder)
    /\ pc = "build_done" => TaskCalls = BuildOrder

\* a build that is done after calling two build_pre hooks
C1_Witness ==
    /\ pc = "build_done"
    /\ Len(HookCalls("build_pre")) = 2
    /\ <<"build_pre", 2>> = calls[Len(calls) - 1]

\* no directory is left at the build dir, and nothing under it
BuildDirGone(f) ==
    /\ ~isdir(f, cfg.build_dir)
    /\ \A k \in DOMAIN f :
          IsPrefix(Resolve(cfg.build_dir), k) => k = Resolve(cfg.build_dir)

\* C2: with clean set, when build() comes to its pre-build tasks the build
\* dir and everything under it is gone, no task has been called yet, and no
\* error was raised, whether or not the build dir existed before.
C2_CleanBeforePreBuild ==
    (cfg.clean /\ pc = "build_pre") =>
        /\ BuildDirGone(fs)
        /\ TaskCalls = <<>>
        /\ err = "none"

\* the build dir existed, was removed, and the pre-build tasks are next
C2_Witness ==
    /\ cfg.clean
    /\ pc = "build_pre"
    /\ calls = <<<<"rmtree", 0>>>>

\* the custom hook a call stands for raises
RaisingHook(c) ==
    /\ c[1] \in {"build_pre", "build_tasks"}
    /\ imports[c[1]][c[2]] = "raise"

\* C8: an error ends build() at once: a raised error leaves it failed, no
\* task is called and nothing is changed after an error, a hook that raises
\* is the last task called, and once a build_pre hook has raised neither
\* deploy_dependencies nor a build_tasks hook is ever called.
C8_FirstErrorAborts ==
    /\ [](/\ err # "none" => pc = "failed"
          /\ \A k \in 1..Len(calls) : RaisingHook(calls[k]) => k = Len(calls)
          /\ (\E k \in 1..Len(calls) :
                  calls[k][1] = "build_pre" /\ RaisingHook(calls[k]))
             => \A k \in 1..Len(calls) :
                  calls[k][1] \notin {"deploy_dependencies", "build_tasks"})
    /\ [][err # "none" => (calls' = calls /\ fs' = fs)]_vars
    /\ [][pc # "failed"]_vars

\* the first of two build_pre hooks raised, with a build_tasks stage
\* registered behind it
C8_Witness ==
    /\ pc = "failed"
    /\ Get(imports, "build_pre") # None
    /\ Len(imports["build_pre"]) = 2
    /\ calls[Len(calls)] = <<"build_pre", 1>>
    /\ RaisingHook(calls[Len(calls)])

(***************************************************************************)
(* Properties of deploy_dependencies, checked under SpecBuild.             *)
(***************************************************************************)
Deps == cfg.dependencies

\* where the claim puts the i-th copy: the build dir joined with the
\* absolute path of the i-th source
AbsDest(i) == Join(cfg.build_dir, P(FALSE, Resolve(Deps[i])))

\* where dest_path of the i-th copy is: the build dir joined with the i-th
\* source as it is written, less its leading separator
DepDest(i) == Join(cfg.build_dir, P(FALSE, Deps[i].parts))

\* the file the i-th copy writes, given the filesystem after the copies
DepTarget(f, i) ==
    IF isdir(f, DepDest(i))
    THEN Resolve(DepDest(i)) \o <<Name(Deps[i])>>
    ELSE Resolve(DepDest(i))

\* the last dependency written to the file the i-th copy writes
LastTo(f, i) ==
    CHOOSE j \in i..Len(Deps) :
        /\ DepTarget(f, j) = DepTarget(f, i)
        /\ \A k \in (j + 1)..Len(Deps) : DepTarget(f, k) # DepTarget(f, i)

\* deploy_dependencies has just returned without an error
Deployed ==
    /\ pc = "build_tasks_custom"
    /\ idx = 1
    /\ calls # <<>>
    /\ calls[Len(calls)] = <<"deploy_dependencies", 0>>

\* C10 as claimed: after a successful deploy_dependencies the N copies are N
\* different files, the i-th at the build dir joined with the absolute path
\* of the i-th source.
C10_NFilesAtAbsolutePaths ==
    Deployed =>
        /\ \A i \in 1..Len(Deps) :
              /\ is_file(fs, AbsDest(i))
              /\ fs[Resolve(AbsDest(i))].content = fs[Resolve(Deps[i])].content
        /\ Cardinality({Resolve(AbsDest(i)) : i \in 1..Len(Deps)}) = Len(Deps)

FileKeys(f) == {k \in DOMAIN f : f[k].kind = "file"}

\* C10, amended: a successful deploy_dependencies copies entry by entry; the
\* i-th copy is the file at the build dir joined with the source as written
\* less its leading separator (inside that path, under the source's name,
\* when the path is a directory); it holds the content of the last entry
\* copied there; no other file is written and none is removed, so the files
\* left are as many as the different destinations.
C10_OneCopyPerDestination ==
    [][(pc = "build_tasks" /\ pc' = "build_tasks_custom") =>
        /\ \A i \in 1..Len(Deps) :
              /\ DepTarget(fs', i) \in FileKeys(fs')
              /\ fs'[DepTarget(fs', i)].content
                     = fs[Resolve(Deps[LastTo(fs', i)])].content
        /\ {k \in FileKeys(fs') : k \notin DOMAIN fs \/ fs[k] # fs'[k]}
               \subseteq {DepTarget(fs', i) : i \in 1..Len(Deps)}
        /\ \A k \in DOMAIN fs : k \in DOMAIN fs' /\ fs'[k].kind = fs[k].kind
      ]_vars

\* two different entries, one absolute and one relative, were copied to the
\* same file
C10_Witness ==
    /\ Deployed
    /\ Len(Deps) = 2
    /\ Deps[1] # Deps[2]
    /\ DepDest(1) = DepDest(2)
    /\ is_file(fs, DepDest(1))

(***************************************************************************)
(* Properties of generate_init and _run_hook, checked under SpecInit.      *)
(***************************************************************************)
custom == Truthy(Get(imports, "custom_init"))

main_stages == {"init_main", "init_late", "init_mount"}

\* the stages whose hooks were called so far
StagesCalled == {calls[k][1] : k \in 1..Len(calls)}

\* the place of a stage in generate_init
Rank(stage) ==
    CASE stage = "init_pre" -> 0
      [] stage \in {"init_main", "custom_init"} -> 1
      [] stage = "init_late" -> 2
      [] stage = "init_mount" -> 3
      [] OTHER -> 4

\* line 134 has returned
BodyReturned == pc \in {"init_final", "init_write", "init_done"}

\* C4: with a custom_init hook registered no hook of init_main, init_late or
\* init_mount is called, and once the body has returned every custom_init
\* hook was called; with none registered no custom_init hook is called, the
\* hooks of init_main, init_late and init_mount are called in that order,
\* and once the body has returned every one of them was called.
C4_CustomOrMain ==
    /\ custom => StagesCalled \cap main_stages = {}
    /\ ~custom => "custom_init" \notin StagesCalled
    /\ \A j, k \in 1..Len(calls) :
          j < k => Rank(calls[j][1]) <= Rank(calls[k][1])
    /\ BodyReturned =>
          \A stage \in (IF custom THEN {"custom_init"} ELSE main_stages) :
              \A i \in 1..Len(imports[stage]) :
                  \E k \in 1..Len(calls) : calls[k] = <<stage, i>>

\* the body has returned with a custom_init hook and an init_main hook
\* registered
C4_Witness ==
    /\ BodyReturned
    /\ custom
    /\ Truthy(Get(imports, "init_main"))
    /\ calls = <<<<"custom_init", 1>>>>

RECURSIVE HookLines(_)
\* the lines the hooks of a list return, one after the other
HookLines(funcs) ==
    IF funcs = <<>> THEN <<>>
    ELSE (CASE Head(funcs) = "str" -> <<"echo A">>
            [] Head(funcs) = "list" -> <<"echo B1", "echo B2">>
            [] OTHER -> <<>>)
         \o HookLines(Tail(funcs))

\* the output of a stage: the sentinel, then the lines of its hooks
StageOut(sentinel, stage) == <<sentinel \o stage>> \o HookLines(imports[stage])

\* the output of the body: the custom init, or else the three main stages
BodyOut(sentinel) ==
    IF custom THEN StageOut(sentinel, "custom_init")
    ELSE StageOut(sentinel, "init_main") \o StageOut(sentinel, "init_late")
         \o StageOut(sentinel, "init_mount")

Header == <<cfg.shebang, "# Generated by initramfs_generator.py v0.6.2">>

\* the whole init as the claim composes it
WholeInit ==
    Header \o StageOut("\n\n# Begin ", "init_pre") \o BodyOut("\n\n# Begin ")
    \o StageOut("\n\n# Begin ", "init_final") \o <<"\n\n# END INIT">>

Front(q) == SubSeq(q, 1, Len(q) - 1)

\* C5: what generate_init writes is the shebang and the version comment,
\* then the init_pre output, then the body (init_main, init_late and
\* init_mount in that order when no custom_init hook is registered), then
\* the init_final output, then the END INIT sentinel; the text of the file
\* starts with the shebang line and ends with the line "# END INIT".
C5_InitComposition ==
    pc = "init_done" =>
        /\ init = WholeInit
        /\ is_file(fs, b_init)
        /\ fs[Resolve(b_init)].content = JoinNL(WholeInit)
        /\ fs[Resolve(b_init)].content
               = cfg.shebang \o "\n" \o JoinNL(Tail(WholeInit))
        /\ fs[Resolve(b_init)].content
               = JoinNL(Front(WholeInit)) \o "\n\n\n" \o "# END INIT"

\* an init written with a line from an init_pre hook and lines from an
\* init_mount hook, and no custom init
C5_Witness ==
    /\ pc = "init_done"
    /\ ~custom
    /\ imports["init_pre"] = <<"str">>
    /\ imports["init_mount"] = <<"list">>
    /\ is_file(fs, b_init)

\* what _run_hook has returned for the stages run so far, given the sentinel
\* that starts a stage's output
RunHookOutputs(sentinel) ==
    /\ pc = "init_body" =>
          /\ init = Header \o StageOut(sentinel, "init_pre")
          /\ calls = HookCalls("init_pre")
    /\ pc = "init_final" =>
          /\ init = Header \o StageOut(sentinel, "init_pre") \o BodyOut(sentinel)
          /\ Len(calls) = Len(HookCalls("init_pre"))
                + (IF custom THEN Len(HookCalls("custom_init"))
                   ELSE Len(HookCalls("init_main")) + Len(HookCalls("init_late"))
                        + Len(HookCalls("init_mount")))

\* C6 as claimed: _run_hook(stage) returns the line "# Begin <stage>", then
\* the outputs of the hooks in registration order: a str as one line, a
\* list as its elements, nothing for a falsy output, every hook being called.
C6_SentinelThenOutputs == RunHookOutputs("# Begin ")

\* C6, amended: the first element _run_hook(stage) returns is the string
\* "\n\n# Begin <stage>", the comment behind two newline characters; the rest
\* is as claimed.
C6_RunHookOutput == RunHookOutputs("\n\n# Begin ")

\* the example of the claim: init_main holds a hook returning "echo A" and a
\* hook returning ["echo B1", "echo B2"]
C6_Witness ==
    /\ pc = "init_final"
    /\ Get(imports, "init_main") = Some(<<"str", "list">>)
    /\ SubSeq(init, 4, 7) = <<"\n\n# Begin init_main", "echo A", "echo B1", "echo B2">>

\* C7: generate_init fails only when a hook raised or the build dir the
\* init goes to is missing; a stage without an entry in imports runs as an
\* empty stage.
C7_UnregisteredStageIsEmpty ==
    pc = "failed" => (err = "HookError" \/ ~isdir(fs, cfg.build_dir))

\* C9: generate_init goes Pending (init_start, init_pre), PreHooksRun
\* (init_body), MainOrCustomRun (init_final), FinalHooksRun (init_write),
\* Written (init_done), or from any of them to Failed; the filesystem is
\* changed by the write alone (whether _write returns or raises part way),
\* which comes after the three stages have returned; a hook that raises
\* leaves generate_init failed with the filesystem as it was, and nothing
\* happens after a failure.
C9_InitStateMachine ==
    /\ [][(\/ <<pc, pc'>> \in {<<"init_start", "init_pre">>,
                                <<"init_pre", "init_body">>,
                                <<"init_body", "init_final">>,
                                <<"init_final", "init_write">>,
                                <<"init_write", "init_done">>}
           \/ /\ pc' = "failed"
              /\ err' # "none"
              /\ pc \in {"init_pre", "init_body", "init_final", "init_write"})]_vars
    /\ [][fs' # fs => pc = "init_write"]_vars
    /\ [][err' = "HookError" => (pc' = "failed" /\ fs' = fs)]_vars
    /\ [][pc # "failed"]_vars

\* an init_final hook raised after the init_pre hook had returned a line, and
\* the init of an earlier run is still what it was
C9_Witness ==
    /\ pc = "failed"
    /\ err = "HookError"
    /\ calls = <<<<"init_pre", 1>>, <<"init_final", 1>>>>
    /\ Len(init) > 3
    /\ is_file(fs, b_init)
    /\ fs[Resolve(b_init)] = File(7, "old init")

(***************************************************************************)
(* Ownership after a filesystem helper, checked under SpecFs.              *)
(***************************************************************************)
\* the last helper call returned without an error
Returned == calls # <<>> /\ err = "none"

LastCall == calls[Len(calls)]

\* C3: after a call of _mkdir, _write, _copy or _chown has returned, the
\* path it acted on is owned by the configured uid, as user and as group.
C3_TouchedPathOwned == Returned => Owned(fs, P(TRUE, LastCall[2]))

\* the same, leaving out _mkdir on a path that already was a directory: this
\* holds
OwnedUnlessMkdirOfExisting ==
    (Returned /\ ~(LastCall[1] = "_mkdir" /\ LastCall[3]))
        => Owned(fs, P(TRUE, LastCall[2]))

\* _mkdir on a path that already is a directory owns its parent instead
MkdirOfExistingOwnsParent ==
    (Returned /\ LastCall[1] = "_mkdir" /\ LastCall[3])
        => Owned(fs, Parent(P(TRUE, LastCall[2])))

(***************************************************************************)
(* build_structure() as one call, and a generator that is run again over   *)
(* the tree an earlier run left.                                           *)
(***************************************************************************)
RECURSIVE run_tasks(_, _)
\* the loop over the custom hooks still to call (lines 77-78, 90-91): the
\* first exception ends it
run_tasks(f, tasks) ==
    IF tasks = <<>> THEN Ok(f)
    ELSE LET r == call_build_hook(f, Head(tasks))
         IN  IF r.err # "none" THEN r ELSE run_tasks(r.fs, Tail(tasks))

\* the custom hooks of a stage, when the registry holds any (lines 74, 87)
custom_tasks(f, stage) ==
    IF Truthy(Get(imports, stage)) THEN run_tasks(f, imports[stage]) ELSE Ok(f)

\* build_structure(), with set(paths) iterated in the given order
build_structure(f, order) ==
    LET r1 == generate_structure(clean_build_dir(f), order)
    IN  IF r1.err # "none" THEN r1
        ELSE LET r2 == custom_tasks(r1.fs, "build_pre")
             IN  IF r2.err # "none" THEN r2
                 ELSE LET r3 == deploy_dependencies(r2.fs)
                      IN  IF r3.err # "none" THEN r3
                          ELSE custom_tasks(r3.fs, "build_tasks")

\* build_structure() calls made over one build dir, the first included
MaxRuns == 2
\* hooks registered over all stages of a configuration that is run again
MaxRerunHooks == 1

\* the marks in calls where build_structure() was called again
Again == {k \in 1..Len(calls) : calls[k][1] = "again"}

\* a faulty re-run: the error of the earlier run is still set
again_err_kept(e) == e

\* the state of a new call: no exception is pending
again_err(e) == "none"

\* build_structure() is called again after a run has returned or raised, by
\* a generator constructed from the same configuration but for the clean
\* flag, which may have been changed.  The mark logs whether the earlier run
\* returned (1) or raised (0).
BuildAgain ==
    /\ pc \in {"build_done", "failed"}
    /\ Cardinality(Again) < MaxRuns - 1
    /\ \E c \in BOOLEAN : cfg' = [cfg EXCEPT !.clean = c]
    /\ calls' = Append(calls, <<"again", IF pc = "build_done" THEN 1 ELSE 0>>)
    /\ pc' = "build_start"
    /\ idx' = 1
    /\ err' = again_err(err)
    /\ UNCHANGED <<imports, fs, init>>

InitRerun ==
    /\ cfg \in {Config(c, ps, ds, h) :
                  c \in BOOLEAN, ps \in SUBSET {lib, lib_modules, bin_sh},
                  ds \in SeqsUpTo({bin_busybox, bin_sh}, MaxDeps),
                  h \in BuildHosts}
    \* hooks that act: one that writes a file, one that raises
    /\ imports \in Registries({"build_pre", "build_tasks"}, {"write", "raise"},
                            MaxRerunHooks)
    /\ fs \in {t @@ HostFs : t \in BuildTrees}
    /\ pc = "build_start"
    /\ idx = 1
    /\ calls = <<>>
    /\ init = <<>>
    /\ err = "none"

NextRerun ==
    \/ BuildClean
    \/ BuildPre
    \/ BuildPreCustom
    \/ BuildPreCustomEnd
    \/ BuildTasks
    \/ BuildTasksCustom
    \/ BuildTasksCustomEnd
    \/ BuildAgain

SpecRerun == InitRerun /\ [][NextRerun]_vars

(***************************************************************************)
(* Properties of a build and of a build run again, checked under           *)
(* SpecRerun.                                                              *)
(***************************************************************************)
UnderBuildDir(k) == IsPrefix(Resolve(cfg.build_dir), k)

\* the file the "write" hook leaves: not made by generate_structure or
\* deploy_dependencies
hook_out == Resolve(build_path(P(FALSE, <<"hook.out">>), TRUE))

\* where generate_structure puts a required path
TargetDir(p) == Join(cfg.build_dir, RelativeToAnchor(p))

\* the build dir and all that generate_structure and deploy_dependencies
\* made under it belong to the configured identity
BuiltOwned ==
    \A k \in DOMAIN fs :
        (UnderBuildDir(k) /\ k # hook_out) => Owned(fs, P(TRUE, k))

\* C11: after build() has returned with clean set, every required path is a
\* directory under the build dir, every dependency d is a file at the build
\* dir joined with d that holds the content of d, and the build dir and all
\* that was made under it by generate_structure and deploy_dependencies is
\* owned by the configured uid as user and group, whatever the order in
\* which the required paths were iterated.
C11_CleanBuildOwned ==
    (cfg.clean /\ pc = "build_done") =>
        /\ \A p \in cfg.paths : isdir(fs, TargetDir(p))
        /\ \A i \in 1..Len(Deps) :
              /\ is_file(fs, DepDest(i))
              /\ fs[Resolve(DepDest(i))].content = fs[Resolve(Deps[i])].content
        /\ BuiltOwned

\* the same for a configuration in which no dependency goes to a required
\* directory: this holds
CleanBuildOwnedUnlessCopiedIntoDir ==
    (/\ cfg.clean
     /\ pc = "build_done"
     /\ \A i \in 1..Len(Deps), p \in cfg.paths : DepDest(i) # TargetDir(p))
    => /\ \A p \in cfg.paths : isdir(fs, TargetDir(p))
       /\ \A i \in 1..Len(Deps) :
             /\ is_file(fs, DepDest(i))
             /\ fs[Resolve(DepDest(i))].content = fs[Resolve(Deps[i])].content
       /\ BuiltOwned

\* the directories under the build dir
Dirs(f) == {k \in DOMAIN f : UnderBuildDir(k) /\ f[k].kind = "dir"}

\* generate_structure() has returned at some time, and the build dir was not
\* removed since
StructureStands ==
    \E k \in 1..Len(calls) :
        /\ calls[k] = <<"generate_structure", 0>>
        /\ IF k = Len(calls) THEN err = "none" /\ pc # "failed"
                             ELSE calls[k + 1][1] # "again"
        /\ \A j \in (k + 1)..Len(calls) : calls[j][1] # "rmtree"

\* C12: once generate_structure() has returned and the build dir was not
\* cleaned since, a further call of generate_structure() raises no error and
\* leaves the set of directories under the build dir as it is, for every
\* order of the required paths: both for a call made right now, and for the
\* call a later build() without clean makes.
C12_StructureIdempotent ==
    /\ [](StructureStands =>
            \A order \in Orders(cfg.paths) :
                LET r == generate_structure(fs, order)
                IN  r.err = "none" /\ Dirs(r.fs) = Dirs(fs))
    /\ [][(StructureStands /\ pc = "build_pre")
            => (err' = "none" /\ Dirs(fs') = Dirs(fs))]_vars

\* the same on a host whose password database has an entry for the
\* configured uid: this holds
StructureIdempotentWithEntry ==
    /\ []((StructureStands /\ cfg.uid \in cfg.passwd) =>
            \A order \in Orders(cfg.paths) :
                LET r == generate_structure(fs, order)
                IN  r.err = "none" /\ Dirs(r.fs) = Dirs(fs))
    /\ [][(StructureStands /\ cfg.uid \in cfg.passwd /\ pc = "build_pre")
            => (err' = "none" /\ Dirs(fs') = Dirs(fs))]_vars

\* generate_structure() has returned a second time, in a build without
\* clean run over the tree of an earlier build, with nested required paths
C12_Witness ==
    /\ Again # {}
    /\ ~cfg.clean
    /\ pc = "build_pre_custom"
    /\ calls[Len(calls)] = <<"generate_structure", 0>>
    /\ \E k \in 1..Len(calls) - 2 : calls[k] = <<"generate_structure", 0>>
    /\ {lib, lib_modules} \subseteq cfg.paths
    /\ err = "none"

\* the mark of the latest call of build_structure() after the first
LastAgain == CHOOSE k \in Again : \A j \in Again : j <= k

\* C14: when build() is run again with clean set over whatever an earlier
\* run left (a run that returned, or one that a built-in task or a hook
\* ended), nothing of the earlier tree is left when the pre-build tasks are
\* reached, and the run ends with the filesystem, and the error, that
\* build() with the same configuration and hooks gives when the build dir
\* is absent (for some order in which the set of paths is iterated).
C14_CleanRerunIsFresh ==
    (Again # {} /\ cfg.clean) =>
        /\ pc = "build_pre" => BuildDirGone(fs)
        /\ (pc \in {"build_done", "failed"} /\ ~is_file(fs, cfg.build_dir)) =>
              \E order \in Orders(cfg.paths) :
                  LET r == build_structure(HostFs, order)
                  IN  fs = r.fs /\ err = r.err

\* a build with clean has returned over the tree left by a run that a
\* built-in task ended, and the tree it removed held a stale file
C14_Witness ==
    /\ Again # {}
    /\ cfg.clean
    /\ pc = "build_done"
    /\ calls[LastAgain][2] = 0
    /\ calls[LastAgain - 1] = <<"generate_structure", 0>>
    /\ calls[LastAgain + 1] = <<"rmtree", 0>>
    /\ cfg.paths # {}
    /\ Deps # <<>>

\* the earlier run of build() returned
EarlierReturned == Again # {} /\ calls[LastAgain][2] = 1

\* C19: when build() is run again without clean over the tree of a build
\* that returned, no task of it raises, and no step of it adds an entry to
\* the tree, removes one, or turns a file into a directory or back: it ends
\* with the set of directories and files the first run left.
C19_RerunKeepsTree ==
    /\ []((EarlierReturned /\ ~cfg.clean) => (err = "none" /\ pc # "failed"))
    /\ [][(EarlierReturned /\ ~cfg.clean)
            => /\ DOMAIN fs' = DOMAIN fs
               /\ \A k \in DOMAIN fs : fs'[k].kind = fs[k].kind]_vars

\* the same on a host whose password database has an entry for the
\* configured uid: this holds
RerunKeepsTreeWithEntry ==
    /\ []((EarlierReturned /\ ~cfg.clean /\ cfg.uid \in cfg.passwd)
            => (err = "none" /\ pc # "failed"))
    /\ [][(EarlierReturned /\ ~cfg.clean)
            => /\ DOMAIN fs' = DOMAIN fs
               /\ \A k \in DOMAIN fs : fs'[k].kind = fs[k].kind]_vars

\* a build without clean has returned over the tree of an earlier build,
\* having found its directories and copied its dependencies again
C19_Witness ==
    /\ EarlierReturned
    /\ ~cfg.clean
    /\ pc = "build_done"
    /\ cfg.paths # {}
    /\ Len(Deps) = 2
    /\ \E k \in (LastAgain + 1)..Len(calls) : calls[k] = <<"deploy_dependencies", 0>>

(***************************************************************************)
(* _run(args).  A text is a sequence of words; bytes are a text wrapped as *)
(* [bytes |-> text], where the word "0xff" stands for bytes that are not   *)
(* UTF-8.  What the command exits with and prints is an input.             *)
(***************************************************************************)
\* _run() calls in one behaviour of SpecRun
MaxCmds == 2

Bytes(text) == [bytes |-> text]

\* bytes.decode(): the text, or UnicodeDecodeError
decodable(b) == \A i \in 1..Len(b.bytes) : b.bytes[i] # "0xff"
decode(b) == b.bytes

\* run(args, capture_output=True): the CompletedProcess
CompletedProcess(args, returncode, stdout, stderr) ==
    [args |-> args, returncode |-> returncode, stdout |-> stdout, stderr |-> stderr]

\* what _run gives its caller: the exception raised and its message, the
\* object returned, and the lines logged at error level
RunResult(e, message, returned, logged) ==
    [err |-> e, message |-> message, returned |-> returned, logged |-> logged]

\* _run(args), given what run() returns for args
_run(cmd) ==
    IF cmd.returncode # 0
    THEN LET failed == <<"Failed", "to", "run", "command:">> \o cmd.args
             l1 == <<failed>>
         IN  IF ~decodable(cmd.stdout)
             THEN RunResult("UnicodeDecodeError", <<>>, None, l1)
             ELSE LET l2 == Append(l1, <<"Command", "output:">> \o decode(cmd.stdout))
                  IN  IF ~decodable(cmd.stderr)
                      THEN RunResult("UnicodeDecodeError", <<>>, None, l2)
                      ELSE RunResult("RuntimeError", failed, None,
                                     Append(l2, <<"Command", "error:">>
                                                \o decode(cmd.stderr)))
    ELSE RunResult("none", <<>>, Some(cmd), <<>>)

\* the commands run and what they give
Commands ==
    {CompletedProcess(args, returncode, Bytes(out), Bytes(e)) :
        args \in {<<"cpio", "-o">>, <<"echo", "hi">>},
        returncode \in {0, 1, 2},
        out \in {<<>>, <<"hi">>, <<"0xff">>},
        e \in {<<>>, <<"no", "such", "file">>, <<"0xff">>}}

\* a caller (a pack hook, say) calls _run; an exception ends the caller
CallRun ==
    /\ pc = "run"
    /\ err = "none"
    /\ Len(calls) < MaxCmds
    /\ \E cmd \in Commands :
         LET r == _run(cmd)
         IN  /\ calls' = Append(calls, <<"_run", cmd, r>>)
             /\ err' = r.err
    /\ UNCHANGED <<cfg, imports, fs, pc, idx, init>>

InitRun ==
    /\ cfg = Config(FALSE, {}, <<>>, {0, 7, 1000})
    /\ imports = [k \in {} |-> <<>>]
    /\ fs = HostFs
    /\ pc = "run"
    /\ idx = 1
    /\ calls = <<>>
    /\ init = <<>>
    /\ err = "none"

NextRun == CallRun

SpecRun == InitRun /\ [][NextRun]_vars

(***************************************************************************)
(* Properties of _run, checked under SpecRun.                              *)
(***************************************************************************)
\* the text holds the words of t one after the other
Contains(text, t) ==
    \E i \in 0..(Len(text) - Len(t)) : SubSeq(text, i + 1, i + Len(t)) = t

\* C13 as claimed: when the command exits nonzero _run raises an error whose
\* content holds the captured stdout and the captured stderr; when it exits
\* zero _run raises nothing and returns the captured result.
C13_ErrorCarriesStreams ==
    \A k \in 1..Len(calls) :
        LET cmd == calls[k][2]
            r == calls[k][3]
        IN  IF cmd.returncode # 0
            THEN /\ r.err # "none"
                 /\ Contains(r.message, cmd.stdout.bytes)
                 /\ Contains(r.message, cmd.stderr.bytes)
            ELSE r.err = "none" /\ r.returned = Some(cmd)

\* the part of it that holds: a command that exits nonzero makes _run raise
\* and return nothing, and the caller makes no further call; a command that
\* exits zero makes it return the captured result, with nothing raised and
\* nothing logged at error level
RunRaisesOnNonzeroExit ==
    /\ [](\A k \in 1..Len(calls) :
            LET cmd == calls[k][2]
                r == calls[k][3]
            IN  IF cmd.returncode # 0
                THEN r.err # "none" /\ r.returned = None /\ k = Len(calls)
                ELSE r.err = "none" /\ r.returned = Some(cmd) /\ r.logged = <<>>)
    /\ [][err = "none"]_vars

(***************************************************************************)
(* __init__ and load_config: the generator is constructed from what the    *)
(* config dict holds once the file is processed, then build_structure() is *)
(* called on it.  In a generator not yet constructed cfg is the config     *)
(* dict, where config_dict[parameter] is None or Some value for the three  *)
(* required parameters.                                                    *)
(***************************************************************************)
\* line 43
required == <<"build_dir", "out_dir", "clean">>

\* a faulty test: a clean flag that is false counts as not found
found_truthy(parameter, dict_value) ==
    dict_value # None /\ (parameter = "clean" => dict_value[1])

\* line 45: dict_value is not None
found(parameter, dict_value) == dict_value # None

RECURSIVE load_from(_, _, _)
\* lines 43-48: the loop over the parameters still to read; attrs are the
\* attributes set so far
load_from(config_dict, parameters, attrs) ==
    IF parameters = <<>> THEN [err |-> "none", attrs |-> attrs]
    ELSE LET parameter == Head(parameters)
             dict_value == config_dict[parameter]
         IN  IF found(parameter, dict_value)
             THEN load_from(config_dict, Tail(parameters),
                            (parameter :> dict_value[1]) @@ attrs)
             ELSE [err |-> "KeyError", attrs |-> attrs]

\* load_config(), from the processed config dict on
load_config(config_dict) == load_from(config_dict, required, <<>>)

\* InitramfsGenerator(config): the exception of load_config ends it
Construct ==
    /\ pc = "new"
    /\ LET r == load_config(cfg)
       IN  /\ err' = r.err
           /\ pc' = after_task(r.err, "build_start")
           /\ cfg' = IF r.err = "none"
                     THEN [cfg EXCEPT !.build_dir = r.attrs.build_dir,
                                      !.out_dir = r.attrs.out_dir,
                                      !.clean = r.attrs.clean]
                     ELSE cfg
    /\ UNCHANGED <<imports, fs, idx, calls, init>>

out_dir == P(TRUE, <<"out">>)

\* the config dicts a file may give
ConfigDicts ==
    {[build_dir |-> b, out_dir |-> o, clean |-> c, paths |-> {lib},
      dependencies |-> ds, shebang |-> "#!/bin/bash", uid |-> 1000,
      passwd |-> h] :
        b \in {None, Some(build_dir)}, o \in {None, Some(out_dir)},
        c \in {None, Some(TRUE), Some(FALSE)},
        ds \in SeqsUpTo({bin_busybox}, 1), h \in Hosts}

InitLoad ==
    /\ cfg \in ConfigDicts
    /\ imports \in Registries({"build_pre", "build_tasks"}, BuildHooks, MaxRerunHooks)
    /\ fs \in {t @@ HostFs : t \in BuildTrees}
    /\ pc = "new"
    /\ idx = 1
    /\ calls = <<>>
    /\ init = <<>>
    /\ err = "none"

NextLoad ==
    \/ Construct
    \/ BuildClean
    \/ BuildPre
    \/ BuildPreCustom
    \/ BuildPreCustomEnd
    \/ BuildTasks
    \/ BuildTasksCustom
    \/ BuildTasksCustomEnd

SpecLoad == InitLoad /\ [][NextLoad]_vars

(***************************************************************************)
(* Properties of the construction, checked under SpecLoad.                 *)
(***************************************************************************)
\* one of the required parameters is None in the config dict
Missing(config_dict) ==
    \E i \in 1..Len(required) : config_dict[required[i]] = None

\* C15: when build_dir, out_dir or clean is None after the config is
\* processed, constructing the generator raises KeyError and nothing else
\* happens, then or later: no directory is made or removed, no file written
\* or copied, no task or hook called.  When none is None, a clean flag that
\* is false included, the generator is constructed with the three values
\* as its attributes.
C15_MissingParameterIsFatal ==
    /\ [][pc = "new" =>
            IF Missing(cfg)
            THEN /\ pc' = "failed"
                 /\ err' = "KeyError"
                 /\ fs' = fs
                 /\ calls' = calls
                 /\ init' = init
            ELSE /\ pc' = "build_start"
                 /\ err' = "none"
                 /\ Some(cfg'.build_dir) = cfg.build_dir
                 /\ Some(cfg'.out_dir) = cfg.out_dir
                 /\ Some(cfg'.clean) = cfg.clean]_vars
    /\ [][pc # "failed"]_vars

\* only the clean flag is missing, the construction has failed, and the
\* build dir of an earlier run stands as it was
C15_Witness ==
    /\ pc = "failed"
    /\ err = "KeyError"
    /\ cfg.build_dir # None
    /\ cfg.out_dir # None
    /\ cfg.clean = None
    /\ is_file(fs, b_init)
    /\ fs[Resolve(b_init)] = File(7, "old init")

(***************************************************************************)
(* pack(), and one run of the pipeline: build_structure(), generate_init() *)
(* and pack() called one after the other on one generator; an exception    *)
(* ends the run.                                                           *)
(***************************************************************************)
\* one iteration of the loop of pack() (lines 166-167): func(self)
PackHook == CustomHook("pack", "pack")

\* the end of the loop, or the else branch that only logs (lines 163, 169)
PackEnd == CustomHooksEnd("pack", "pack", "pack_done")

\* generate_init() is called once build_structure() has returned
CallGenerateInit ==
    /\ pc = "build_done"
    /\ pc' = "init_start"
    /\ init' = <<>>
    /\ UNCHANGED <<cfg, imports, fs, idx, calls, err>>

\* pack() is called once generate_init() has returned
CallPack ==
    /\ pc = "init_done"
    /\ pc' = "pack"
    /\ idx' = 1
    /\ UNCHANGED <<cfg, imports, fs, calls, init, err>>

Stages == InitStages \cup {"build_pre", "build_tasks", "pack"}

\* what a hook of a stage may be
HooksOf(stage) == IF stage \in InitStages THEN InitHooks ELSE BuildHooks

RECURSIVE Registered(_, _)
\* the registries that hold a list, which may be empty, for each of the
\* stages, with at most budget hooks in all
Registered(stages, budget) ==
    IF stages = {} THEN {[k \in {} |-> <<>>]}
    ELSE LET k == CHOOSE x \in stages : TRUE
         IN  UNION {{(k :> q) @@ d : q \in SeqsOfLen(HooksOf(k), n),
                                      d \in Registered(stages \ {k}, budget - n)} :
                    n \in 0..Min(MaxHooks, budget)}

InitPipeline ==
    /\ cfg \in {Config(c, {lib}, <<bin_busybox>>, {0, 7, 1000}) : c \in BOOLEAN}
    \* every stage registered, or all but one
    /\ imports \in Registered(Stages, MaxTotalHooks)
                   \cup UNION {Registered(Stages \ {s}, MaxTotalHooks) : s \in Stages}
    /\ fs = (<<"b">> :> Dir(1000)) @@ (<<"b", "init">> :> File(7, "old init"))
            @@ HostFs
    /\ pc = "build_start"
    /\ idx = 1
    /\ calls = <<>>
    /\ init = <<>>
    /\ err = "none"

NextPipeline ==
    \/ BuildClean
    \/ BuildPre
    \/ BuildPreCustom
    \/ BuildPreCustomEnd
    \/ BuildTasks
    \/ BuildTasksCustom
    \/ BuildTasksCustomEnd
    \/ CallGenerateInit
    \/ GenInitStart
    \/ GenInitPre
    \/ GenInitBody
    \/ GenInitFinal
    \/ GenInitWrite
    \/ CallPack
    \/ PackHook
    \/ PackEnd

SpecPipeline == InitPipeline /\ [][NextPipeline]_vars

(***************************************************************************)
(* Properties of pack() and of the whole run, checked under SpecPipeline.  *)
(***************************************************************************)
IsPackCall(c) == c[1] = "pack"

\* the pack hooks called so far
PackCalls == SelectSeq(calls, IsPackCall)

\* C16: with no pack hook registered (no entry for the stage, or an empty
\* list) pack() returns without an error, having called nothing and left
\* the filesystem as it was; with pack hooks registered they are called in
\* registration order, each through the generator, and pack() returns when
\* all of them were called.
C16_PackFrame ==
    /\ [][(pc = "pack" /\ ~Truthy(Get(imports, "pack")))
            => /\ pc' = "pack_done"
               /\ fs' = fs
               /\ err' = "none"
               /\ calls' = calls]_vars
    /\ [](/\ IsPrefix(PackCalls, HookCalls("pack"))
          /\ pc = "pack_done" => PackCalls = HookCalls("pack")
          /\ PackCalls # <<>> => pc \in {"pack", "pack_done", "failed"})

\* pack() has returned over a built tree that holds the init, with an empty
\* list registered for the stage
C16_Witness ==
    /\ pc = "pack_done"
    /\ Get(imports, "pack") = Some(<<>>)
    /\ PackCalls = <<>>
    /\ is_file(fs, b_init)
    /\ is_file(fs, DepDest(1))

IsHookCall(c) == c[1] \in Stages

\* the stages whose hooks a run that nothing ends calls
Selected ==
    {"build_pre", "build_tasks", "init_pre", "init_final", "pack"}
    \cup (IF custom THEN {"custom_init"} ELSE main_stages)

\* how often the i-th hook of a stage was called
TimesCalled(stage, i) ==
    Cardinality({k \in 1..Len(calls) : calls[k] = <<stage, i>>})

\* C20: in a run of build(), generateInit() and pack() only registered hooks
\* are called, none more than once; when the run has come to its end with
\* nothing raised, every hook of build_pre, build_tasks, init_pre,
\* init_final and pack was called once, and every hook of custom_init when
\* it holds a hook, or else of init_main, init_late and init_mount; the
\* hooks of the stages not selected were not called.
C20_EachHookOnce ==
    /\ \A k \in 1..Len(calls) :
          IsHookCall(calls[k]) =>
              /\ Get(imports, calls[k][1]) # None
              /\ calls[k][2] \in 1..Len(imports[calls[k][1]])
              /\ TimesCalled(calls[k][1], calls[k][2]) = 1
    /\ pc = "pack_done" =>
          /\ err = "none"
          /\ \A stage \in DOMAIN imports :
                \A i \in 1..Len(imports[stage]) :
                    TimesCalled(stage, i) = (IF stage \in Selected THEN 1 ELSE 0)

\* a run has ended in which a custom_init hook was called and an init_main
\* hook, registered as well, was not
C20_Witness ==
    /\ pc = "pack_done"
    /\ Get(imports, "custom_init") = Some(<<"str">>)
    /\ Get(imports, "init_main") = Some(<<"list">>)
    /\ calls = <<<<"rmtree", 0>>, <<"generate_structure", 0>>,
                 <<"deploy_dependencies", 0>>, <<"custom_init", 1>>>>

(***************************************************************************)
(* Properties of _mkdir and _copy, checked under SpecFs.                   *)
(***************************************************************************)
\* the path and its ancestors, as keys of the filesystem
Chain(k) == {SubSeq(k, 1, n) : n \in 0..Len(k)}

\* nothing that is not a directory is in the way of the path
Clear(f, k) == \A a \in Chain(k) : a \in DOMAIN f => f[a].kind = "dir"

\* C17: a step that calls _mkdir(path) on a path that is not a directory
\* returns whenever no file is in the way, however many ancestors are
\* missing (the parent of a directory is made before the directory:
\* os.mkdir needs it); it creates directories only, on the chain from the
\* path upwards only, each owned by the configured uid; on return the path
\* and all its ancestors are directories; and on a path that is a directory
\* it creates nothing and raises no FileExistsError: it returns, or raises
\* the KeyError of the owner test on the parent, whose owner the password
\* database does not know.
C17_MkdirChain ==
    [][(calls' # calls /\ calls'[Len(calls')][1] = "_mkdir") =>
        LET k == calls'[Len(calls')][2]
            created == DOMAIN fs' \ DOMAIN fs
        IN  /\ (Clear(fs, k) /\ ~calls'[Len(calls')][3]) => err' = "none"
            /\ DOMAIN fs \subseteq DOMAIN fs'
            /\ \A c \in created :
                  /\ c \in Chain(k)
                  /\ fs'[c].kind = "dir"
                  /\ Owned(fs', P(TRUE, c))
            /\ err' = "none" => \A a \in Chain(k) : isdir(fs', P(TRUE, a))
            /\ calls'[Len(calls')][3] =>
                  /\ created = {}
                  /\ \/ err' = "none"
                     \/ /\ err' = "KeyError"
                        /\ fs[Resolve(Parent(P(TRUE, k)))].owner \notin cfg.passwd
      ]_vars

\* _mkdir of /b/lib/modules has returned where no build dir was: the three
\* directories of the chain were made and are owned
C17_Witness ==
    /\ calls = <<<<"_mkdir", Resolve(b_lib_modules), FALSE>>>>
    /\ err = "none"
    /\ {k \in DOMAIN fs : UnderBuildDir(k)}
           = {Resolve(build_dir), Resolve(b_lib), Resolve(b_lib_modules)}
    /\ \A k \in DOMAIN fs : UnderBuildDir(k) => Owned(fs, P(TRUE, k))

\* the last call was a _copy into the build dir that has returned
Copied ==
    /\ Returned
    /\ LastCall[1] = "_copy"
    /\ UnderBuildDir(LastCall[2])

\* the content of the files _copy is given as source
SourceContents == {HostFs[Resolve(src)].content : src \in {bin_busybox, rel_busybox}}

\* a _copy into the build dir never fails for a directory that is missing:
\* this holds
CopyMakesParent ==
    (calls # <<>> /\ LastCall[1] = "_copy" /\ UnderBuildDir(LastCall[2]))
        => err # "FileNotFoundError"

\* C18: when _copy(source, dest) into the build dir has returned, the
\* destination (the build dir joined with dest less its leading separator,
\* dest being source when not given) is a file that holds the content of
\* the source and is owned by the configured uid; and the call does not
\* fail for a missing parent directory or an existing destination file.
C18_CopyLandsOwned ==
    /\ Copied =>
          /\ is_file(fs, P(TRUE, LastCall[2]))
          /\ fs[LastCall[2]].content \in SourceContents
          /\ Owned(fs, P(TRUE, LastCall[2]))
    /\ CopyMakesParent

\* the same for a destination that is not a directory when _copy is called:
\* this holds
CopyLandsOwnedUnlessDirectory ==
    (Copied /\ ~LastCall[3]) =>
        /\ is_file(fs, P(TRUE, LastCall[2]))
        /\ fs[LastCall[2]].content \in SourceContents
        /\ Owned(fs, P(TRUE, LastCall[2]))

\* into a destination that is a directory the file is copied under the name
\* of its source, and the directory is what is owned
CopyIntoDirectoryOwnsDirectory ==
    (Copied /\ LastCall[3]) =>
        /\ isdir(fs, P(TRUE, LastCall[2]))
        /\ is_file(fs, P(TRUE, LastCall[2] \o <<"busybox">>))
        /\ Owned(fs, P(TRUE, LastCall[2]))

====
